---- MODULE Spec2Model ----
(***************************************************************************)
(* rclin: the interactive half of the program (src/src/main.rs,            *)
(* src/src/state.rs).  The model starts when scan() has returned Ok in     *)
(* main and follows main through the terminal setup and the                *)
(* poll / handle_event / draw loop.                                        *)
(*                                                                         *)
(* usize values are kept as integers in a window around 0: a negative      *)
(* integer v stands for 2^64 + v (so -1 is usize::MAX).  Wrapping          *)
(* subtraction and the unsigned order are defined on that representation.  *)
(***************************************************************************)
EXTENDS Integers, Sequences, FiniteSets, TLC

\* ---------------------------------------------------------------- bounds
\* longest scan result the model starts from
MaxLen == 3
\* the selected index is followed only inside -MaxSel .. MaxLen + MaxSel
MaxSel == 2

\* the paths a scan result is drawn from
PathPool == {"p1", "p2", "p3", "p4"}

VARIABLES
    results,        \* state.results : Vec<String>
    items,          \* events.items  : Vec<String>
    selected,       \* events.state.selected() : Option<usize>
    pc,             \* where main is
    rawMode,        \* terminal raw mode enabled
    altScreen,      \* alternate screen entered
    overflowChecks, \* the build panics on integer overflow (debug profile)
    lastEvent,      \* history: the event handle_event was last called with
    calls,          \* history: the trash::delete calls of that handle_event
    prevSel,        \* history: the selection when that handle_event began
    prevEvent,      \* history: the event handled before lastEvent
    trashed,        \* history: the paths trash::delete returned Ok for
    fs,             \* the directory tree scan walks: node -> [name, kind]
    stack,          \* the scan() calls in progress, innermost last
    visits,         \* history: per directory, how often scan() listed it
    failed          \* history: the read_dir calls that returned Err

\* what scan() works on
scanVars == <<fs, stack, visits, failed>>

vars == <<results, items, selected, pc, rawMode, altScreen, overflowChecks,
          lastEvent, calls, prevSel, prevEvent, trashed, scanVars>>

\* ---------------------------------------------------------------- Option<usize>
None == <<>>
Some(i) == <<i>>

\* a >= b on usize, in the window representation
UGe(a, b) == IF (a < 0) = (b < 0) THEN a >= b ELSE a < 0

\* Vec::remove(idx) for an index in range (1-based sequence, 0-based idx)
RemoveAt(s, idx) == [k \in 1 .. (Len(s) - 1) |-> IF k <= idx THEN s[k] ELSE s[k + 1]]

\* Vec::get(idx).is_some()
InRange(s, idx) == idx >= 0 /\ idx < Len(s)

\* sequences without repetition over S, of length n
RECURSIVE DistinctSeqs(_, _)
DistinctSeqs(S, n) ==
    IF n = 0 THEN {<<>>}
    ELSE UNION {{Append(s, x) : x \in S \ {s[k] : k \in 1 .. Len(s)}} : s \in DistinctSeqs(S, n - 1)}

\* ---------------------------------------------------------------- Events (state.rs)
\* Events::clear: the selection after it (items become empty)
Events_clear == [items |-> <<>>, sel |-> None]

\* Events::next with `>` for `>=`: the last index steps past the end
Events_next_PastEnd(its, sel, oc) ==
    IF sel = None THEN [fault |-> FALSE, sel |-> Some(0)]
    ELSE IF oc /\ Len(its) = 0 THEN [fault |-> TRUE, sel |-> sel]
    ELSE IF UGe(sel[1], Len(its)) THEN [fault |-> FALSE, sel |-> Some(0)]
    ELSE [fault |-> FALSE, sel |-> Some(sel[1] + 1)]

\* Events::next: items.len() - 1 underflows on an empty Vec when a Some(i) is held
Events_next(its, sel, oc) ==
    IF sel = None THEN [fault |-> FALSE, sel |-> Some(0)]
    ELSE IF oc /\ Len(its) = 0 THEN [fault |-> TRUE, sel |-> sel]
    ELSE IF UGe(sel[1], Len(its) - 1) THEN [fault |-> FALSE, sel |-> Some(0)]
    ELSE [fault |-> FALSE, sel |-> Some(sel[1] + 1)]

\* Events::previous that stops at index 0 instead of wrapping
Events_previous_NoWrap(its, sel, oc) ==
    IF sel = None THEN [fault |-> FALSE, sel |-> Some(0)]
    ELSE IF sel[1] = 0 THEN [fault |-> FALSE, sel |-> Some(0)]
    ELSE [fault |-> FALSE, sel |-> Some(sel[1] - 1)]

\* Events::previous
Events_previous(its, sel, oc) ==
    IF sel = None THEN [fault |-> FALSE, sel |-> Some(0)]
    ELSE IF sel[1] = 0
         THEN IF oc /\ Len(its) = 0 THEN [fault |-> TRUE, sel |-> sel]
              ELSE [fault |-> FALSE, sel |-> Some(Len(its) - 1)]
    ELSE [fault |-> FALSE, sel |-> Some(sel[1] - 1)]

\* ---------------------------------------------------------------- trash (main.rs)
\* trash_selected that removes the entry without looking at the outcome
trash_selected_IgnoreOutcome(res, its, sel, ok) ==
    IF sel # None /\ InRange(res, sel[1]) /\ InRange(its, sel[1])
    THEN [results |-> RemoveAt(res, sel[1]), items |-> RemoveAt(its, sel[1]),
          calls |-> <<[path |-> res[sel[1] + 1], ok |-> ok]>>, fault |-> FALSE]
    ELSE [results |-> res, items |-> its, calls |-> <<>>, fault |-> FALSE]

\* trash_selected without events.items.remove(idx)
trash_selected_ResultsOnly(res, its, sel, ok) ==
    IF sel # None /\ InRange(res, sel[1])
    THEN [results |-> IF ok THEN RemoveAt(res, sel[1]) ELSE res, items |-> its,
          calls |-> <<[path |-> res[sel[1] + 1], ok |-> ok]>>, fault |-> FALSE]
    ELSE [results |-> res, items |-> its, calls |-> <<>>, fault |-> FALSE]

\* trash_selected that trashes the path but leaves it in both lists
trash_selected_NoRemove(res, its, sel, ok) ==
    IF sel # None /\ InRange(res, sel[1])
    THEN [results |-> res, items |-> its,
          calls |-> <<[path |-> res[sel[1] + 1], ok |-> ok]>>, fault |-> FALSE]
    ELSE [results |-> res, items |-> its, calls |-> <<>>, fault |-> FALSE]

\* Vec::swap_remove(idx): the last element takes the place of the removed one
SwapRemoveAt(s, idx) ==
    [k \in 1 .. (Len(s) - 1) |-> IF k = idx + 1 THEN s[Len(s)] ELSE s[k]]

\* trash_selected with swap_remove for remove
trash_selected_SwapRemove(res, its, sel, ok) ==
    IF sel # None /\ InRange(res, sel[1]) /\ InRange(its, sel[1])
    THEN [results |-> IF ok THEN SwapRemoveAt(res, sel[1]) ELSE res,
          items |-> IF ok THEN SwapRemoveAt(its, sel[1]) ELSE its,
          calls |-> <<[path |-> res[sel[1] + 1], ok |-> ok]>>, fault |-> FALSE]
    ELSE [results |-> res, items |-> its, calls |-> <<>>, fault |-> FALSE]

\* trash_selected: ok is the outcome of trash::delete, used only if it is called
trash_selected(res, its, sel, ok) ==
    IF sel # None /\ InRange(res, sel[1])
    THEN LET idx  == sel[1]
             call == [path |-> res[idx + 1], ok |-> ok]
         IN IF ok
            THEN IF InRange(its, idx)
                 THEN [results |-> RemoveAt(res, idx), items |-> RemoveAt(its, idx),
                       calls |-> <<call>>, fault |-> FALSE]
                 ELSE [results |-> RemoveAt(res, idx), items |-> its,
                       calls |-> <<call>>, fault |-> TRUE]
            ELSE [results |-> res, items |-> its, calls |-> <<call>>, fault |-> FALSE]
    ELSE [results |-> res, items |-> its, calls |-> <<>>, fault |-> FALSE]

\* index of the first failing trash::delete of a bulk run, 0 if none fails
FirstFail(outs, n) ==
    IF \E k \in 1 .. n : ~outs[k] THEN CHOOSE k \in 1 .. n : ~outs[k] /\ \A j \in 1 .. (k - 1) : outs[j]
    ELSE 0

\* trash_all: outs[k] is the outcome of trash::delete on the k-th path;
\* unwrap() panics on the first Err, before the lists are cleared
trash_all(res, its, sel, outs) ==
    LET ff == FirstFail(outs, Len(res)) IN
    IF ff = 0
    THEN [results |-> <<>>, items |-> Events_clear.items, sel |-> Events_clear.sel,
          calls |-> [k \in 1 .. Len(res) |-> [path |-> res[k], ok |-> TRUE]],
          fault |-> FALSE]
    ELSE [results |-> res, items |-> its, sel |-> sel,
          calls |-> [k \in 1 .. ff |-> [path |-> res[k], ok |-> (k < ff)]],
          fault |-> TRUE]

\* ---------------------------------------------------------------- main
Init ==
    /\ results \in UNION {DistinctSeqs(PathPool, n) : n \in 0 .. MaxLen}
    /\ items = <<>>
    /\ selected = None
    /\ pc = "scanned"
    /\ rawMode = FALSE
    /\ altScreen = FALSE
    /\ overflowChecks \in BOOLEAN
    /\ lastEvent = "none"
    /\ calls = <<>>
    /\ prevSel = None
    /\ prevEvent = "none"
    /\ trashed = {}
    /\ fs = <<>>
    /\ stack = <<>>
    /\ visits = <<>>
    /\ failed = {}

\* main, lines 51-55: no results, exit(0) before the terminal is touched
MainNoResults ==
    /\ pc = "scanned"
    /\ results = <<>>
    /\ pc' = "exit0"
    /\ UNCHANGED <<results, items, selected, rawMode, altScreen, overflowChecks,
                   lastEvent, calls, prevSel, prevEvent, trashed, scanVars>>

\* main, lines 57-69: Events::new, events.next(), terminal setup, first draw.
\* failAt is the first of the four `?` that returns Err (0: none does).
MainSetup ==
    /\ pc = "scanned"
    /\ results # <<>>
    /\ \E failAt \in 0 .. 4 :
        LET n == Events_next(results, None, overflowChecks) IN
        /\ items' = results
        /\ selected' = n.sel
        /\ rawMode' = (failAt = 0 \/ failAt > 1)
        /\ altScreen' = (failAt = 0 \/ failAt > 2)
        /\ pc' = IF n.fault THEN "panic" ELSE IF failAt = 0 THEN "wait" ELSE "mainErr"
    /\ UNCHANGED <<results, overflowChecks, lastEvent, calls, prevSel, prevEvent, trashed, scanVars>>

\* main, line 80: terminal.draw(...)? after a handled event
Draw ==
    /\ pc = "draw"
    /\ \E ok \in BOOLEAN : pc' = IF ok THEN "wait" ELSE "mainErr"
    /\ UNCHANGED <<results, items, selected, rawMode, altScreen, overflowChecks,
                   lastEvent, calls, prevSel, prevEvent, trashed, scanVars>>

\* the selection stays inside the window the model follows
InWindow(sel) == sel = None \/ (sel[1] >= -MaxSel /\ sel[1] <= MaxLen + MaxSel)

\* ---------------------------------------------------------------- handle_event
\* Up: events.previous()
KeyUp ==
    /\ pc = "wait"
    /\ LET r == Events_previous(items, selected, overflowChecks) IN
        /\ InWindow(r.sel)
        /\ selected' = r.sel
        /\ pc' = IF r.fault THEN "panic" ELSE "draw"
    /\ lastEvent' = "Up"
    /\ calls' = <<>>
    /\ prevSel' = selected
    /\ prevEvent' = lastEvent
    /\ UNCHANGED <<results, items, rawMode, altScreen, overflowChecks, trashed, scanVars>>

\* Down: events.next()
KeyDown ==
    /\ pc = "wait"
    /\ LET r == Events_next(items, selected, overflowChecks) IN
        /\ InWindow(r.sel)
        /\ selected' = r.sel
        /\ pc' = IF r.fault THEN "panic" ELSE "draw"
    /\ lastEvent' = "Down"
    /\ calls' = <<>>
    /\ prevSel' = selected
    /\ prevEvent' = lastEvent
    /\ UNCHANGED <<results, items, rawMode, altScreen, overflowChecks, trashed, scanVars>>

\* Delete: trash_selected(state, events); events.next()
KeyDelete ==
    /\ pc = "wait"
    /\ \E ok \in BOOLEAN :
        LET t == trash_selected(results, items, selected, ok)
            n == Events_next(t.items, selected, overflowChecks)
        IN
        /\ results' = t.results
        /\ items' = t.items
        /\ calls' = t.calls
        /\ trashed' = trashed \cup {t.calls[k].path : k \in {j \in 1 .. Len(t.calls) : t.calls[j].ok}}
        /\ IF t.fault
           THEN selected' = selected /\ pc' = "panic"
           ELSE /\ InWindow(n.sel)
                /\ selected' = n.sel
                /\ pc' = IF n.fault THEN "panic" ELSE "draw"
    /\ lastEvent' = "Delete"
    /\ prevSel' = selected
    /\ prevEvent' = lastEvent
    /\ UNCHANGED <<rawMode, altScreen, overflowChecks, scanVars>>

\* 'a': trash_all(state, events); events.next()
KeyTrashAll ==
    /\ pc = "wait"
    /\ \E outs \in [1 .. Len(results) -> BOOLEAN] :
        LET t == trash_all(results, items, selected, outs)
            n == Events_next(t.items, t.sel, overflowChecks)
        IN
        /\ results' = t.results
        /\ items' = t.items
        /\ calls' = t.calls
        /\ trashed' = trashed \cup {t.calls[k].path : k \in {j \in 1 .. Len(t.calls) : t.calls[j].ok}}
        /\ IF t.fault
           THEN selected' = t.sel /\ pc' = "panic"
           ELSE /\ selected' = n.sel
                /\ pc' = IF n.fault THEN "panic" ELSE "draw"
    /\ lastEvent' = "a"
    /\ prevSel' = selected
    /\ prevEvent' = lastEvent
    /\ UNCHANGED <<rawMode, altScreen, overflowChecks, scanVars>>

\* Esc / Ctrl-C: disable_raw_mode()?, execute!(LeaveAlternateScreen, ..)?,
\* show_cursor()?, exit(0).  failAt is the first `?` that returns Err; main
\* then prints the error and calls exit(2).
KeyExit ==
    /\ pc = "wait"
    /\ \E failAt \in 0 .. 3 :
        /\ rawMode' = IF failAt = 1 THEN rawMode ELSE FALSE
        /\ altScreen' = IF failAt \in {1, 2} THEN altScreen ELSE FALSE
        /\ pc' = IF failAt = 0 THEN "exit0" ELSE "exit2"
    /\ lastEvent' = "Exit"
    /\ calls' = <<>>
    /\ prevSel' = selected
    /\ prevEvent' = lastEvent
    /\ UNCHANGED <<results, items, selected, overflowChecks, trashed, scanVars>>

\* any other event: the `_ => ()` arm
OtherEvent ==
    /\ pc = "wait"
    /\ pc' = "draw"
    /\ lastEvent' = "other"
    /\ calls' = <<>>
    /\ prevSel' = selected
    /\ prevEvent' = lastEvent
    /\ UNCHANGED <<results, items, selected, rawMode, altScreen, overflowChecks, trashed, scanVars>>

handle_event == KeyUp \/ KeyDown \/ KeyDelete \/ KeyTrashAll \/ KeyExit \/ OtherEvent

Next == MainNoResults \/ MainSetup \/ Draw \/ handle_event

Spec == Init /\ [][Next]_vars

\* ================================================================ properties
\* the selection is Some(i) with i a valid index of its
ValidSel(sel, its) == sel # None /\ InRange(its, sel[1])

\* the handler taking this step is the Delete arm and it called trash::delete once
DeleteCalled(ok) ==
    /\ pc = "wait"
    /\ lastEvent' = "Delete"
    /\ Len(calls') = 1
    /\ calls'[1].ok = ok

\* C1: whenever the loop waits for input and the result list is empty, the
\* selection is none.
C1_EmptyListSelectionNone ==
    (pc = "wait" /\ items = <<>>) => selected = None

\* C2: whenever the loop waits for input and the result list is non-empty,
\* the selection is Some(i) with 0 <= i < len.
C2_NonEmptySelectionValid ==
    (pc = "wait" /\ items # <<>>) => ValidSel(selected, items)

\* C2 witness: a successful Delete of the last entry of a longer list has
\* wrapped the selection to 0 and the loop waits again.
C2_Witness ==
    /\ pc = "wait"
    /\ lastEvent = "Delete"
    /\ Len(calls) = 1 /\ calls[1].ok
    /\ items # <<>>
    /\ prevSel = Some(Len(items))
    /\ selected = Some(0)

\* C3: an Up or Down event (previous() / next()) handled while the list is
\* empty does not fault and leaves the selection at none.
C3_EmptyListNavigationNoOp ==
    [][(pc = "wait" /\ items = <<>> /\ lastEvent' \in {"Up", "Down"})
        => (pc' # "panic" /\ selected' = selected /\ selected' = None)]_vars

\* C4: a successful Delete at a selected index i that is not the last one
\* leaves the entry that was at i+1 at index i, the list one shorter, and
\* the selection still i.
C4_DeleteKeepsCursorOnSlidEntry ==
    [][(DeleteCalled(TRUE) /\ ValidSel(selected, results) /\ selected[1] < Len(results) - 1)
        => /\ pc' = "draw"
           /\ Len(results') = Len(results) - 1
           /\ Len(items') = Len(items) - 1
           /\ results'[selected[1] + 1] = results[selected[1] + 2]
           /\ items'[selected[1] + 1] = items[selected[1] + 2]
           /\ selected' = selected]_vars

\* C5: a successful Delete of the only entry leaves the list empty and the
\* selection none, without a fault.
C5_DeleteOnlyEntry ==
    [][(DeleteCalled(TRUE) /\ Len(results) = 1 /\ selected = Some(0))
        => /\ pc' = "draw"
           /\ results' = <<>>
           /\ items' = <<>>
           /\ selected' = None]_vars

\* C6: a Delete whose trash::delete fails leaves state.results and
\* events.items as they were and the process running.
C6_FailedDeleteKeepsList ==
    [][DeleteCalled(FALSE)
        => /\ results' = results
           /\ items' = items
           /\ pc' = "draw"]_vars

\* C6 witness: a Delete has been handled whose trash::delete failed, on a
\* list of several entries.
C6_Witness ==
    /\ pc = "draw"
    /\ lastEvent = "Delete"
    /\ Len(calls) = 1 /\ ~calls[1].ok
    /\ Len(results) >= 2
    /\ calls[1].path = results[prevSel[1] + 1]

\* C7: a Delete whose trash::delete fails leaves the selected index as it was.
C7_FailedDeleteKeepsCursor ==
    [][DeleteCalled(FALSE) => selected' = selected]_vars

\* the paths of a sequence of trash::delete calls
CallPaths(cs) == [k \in 1 .. Len(cs) |-> cs[k].path]

\* C8: delete-all calls trash::delete once for every listed path, in list
\* order, whatever the outcomes of the earlier calls.
C8_TrashAllAttemptsEveryPath ==
    [][(pc = "wait" /\ lastEvent' = "a") => CallPaths(calls') = results]_vars

\* C9: after a delete-all event the result list is empty and the selection
\* is none, whatever the outcomes.
C9_TrashAllClears ==
    [][(pc = "wait" /\ lastEvent' = "a")
        => (results' = <<>> /\ items' = <<>> /\ selected' = None)]_vars

\* C10: on a non-empty list with a valid selection i, next() followed by
\* previous() returns the selection to i, and neither call changes the list.
C10_NextPreviousRoundTrip ==
    [][/\ (pc = "wait" /\ lastEvent' \in {"Up", "Down"} /\ ValidSel(selected, items))
            => (items' = items /\ results' = results /\ pc' = "draw")
       /\ (pc = "wait" /\ lastEvent = "Down" /\ lastEvent' = "Up" /\ ValidSel(prevSel, items))
            => selected' = prevSel]_vars

\* C10 witness: Down wrapped from the last index to 0 and the following Up
\* wrapped back to the last index, on a list of at least two entries.
C10_Witness ==
    /\ lastEvent = "Up"
    /\ prevEvent = "Down"
    /\ Len(items) >= 2
    /\ prevSel = Some(0)
    /\ selected = Some(Len(items) - 1)

\* ================================================================ Events on its own
\* Events::new(items) followed by any sequence of next() / previous() calls

\* Events::new: any list, no selection
InitNav ==
    /\ items \in UNION {DistinctSeqs(PathPool, n) : n \in 0 .. MaxLen}
    /\ selected = None
    /\ results = <<>>
    /\ pc = "nav"
    /\ rawMode = FALSE
    /\ altScreen = FALSE
    /\ overflowChecks \in BOOLEAN
    /\ lastEvent = "none"
    /\ calls = <<>>
    /\ prevSel = None
    /\ prevEvent = "none"
    /\ trashed = {}
    /\ fs = <<>>
    /\ stack = <<>>
    /\ visits = <<>>
    /\ failed = {}

\* a call of Events::next
NavNext ==
    /\ pc = "nav"
    /\ LET r == Events_next(items, selected, overflowChecks) IN
        /\ InWindow(r.sel)
        /\ selected' = r.sel
        /\ pc' = IF r.fault THEN "panic" ELSE "nav"
    /\ lastEvent' = "next"
    /\ prevSel' = selected
    /\ prevEvent' = lastEvent
    /\ UNCHANGED <<results, items, rawMode, altScreen, overflowChecks, calls, trashed, scanVars>>

\* a call of Events::previous
NavPrevious ==
    /\ pc = "nav"
    /\ LET r == Events_previous(items, selected, overflowChecks) IN
        /\ InWindow(r.sel)
        /\ selected' = r.sel
        /\ pc' = IF r.fault THEN "panic" ELSE "nav"
    /\ lastEvent' = "previous"
    /\ prevSel' = selected
    /\ prevEvent' = lastEvent
    /\ UNCHANGED <<results, items, rawMode, altScreen, overflowChecks, calls, trashed, scanVars>>

NextNav == NavNext \/ NavPrevious

SpecNav == InitNav /\ [][NextNav]_vars

\* C11: on a list of len > 0, previous() selects len-1 from none, wraps
\* from selected(0) to selected(len-1), and goes from selected(i), i > 0,
\* to selected(i-1).
C11_PreviousTransitions ==
    [][(pc = "nav" /\ lastEvent' = "previous" /\ Len(items) > 0
            /\ (selected = None \/ ValidSel(selected, items)))
        => /\ pc' = "nav"
           /\ selected' = IF selected = None THEN Some(Len(items) - 1)
                          ELSE IF selected[1] = 0 THEN Some(Len(items) - 1)
                          ELSE Some(selected[1] - 1)]_vars

\* ================================================================ scan (main.rs)
\* The directory tree is a fixed skeleton of ten slots whose entries are
\* drawn in InitScan.  File names are sequences of characters, paths are
\* sequences of names.  Entry names are taken to be valid UTF-8 and
\* DirEntry::metadata / file_type to succeed; a read_dir call may fail.

\* deepest nesting of scan() calls that is followed
MaxDepth == 4
\* most read_dir calls that return Err in one run
MaxReadFail == 1

N_root   == <<"r">>
N_proj   == <<"p", "r", "o", "j">>
N_sub    == <<"s", "u", "b">>
N_hidden == <<".", "h">>
N_other  == <<"o">>
N_target == <<"t", "a", "r", "g", "e", "t">>
N_cargo  == <<"C", "a", "r", "g", "o", ".", "t", "o", "m", "l">>

Nodes == 0 .. 9
Root == 0

\* the directory slot each slot is an entry of
Parent(n) ==
    CASE n \in {1, 7} -> 0
      [] n \in {2, 3, 4} -> 1
      [] n \in {5, 6} -> 4
      [] n \in {8, 9} -> 7
      [] OTHER -> 0

\* every symlink of the tree points at the directory r/proj
LinkTarget == 1

Absent == [name |-> <<>>, kind |-> "absent"]
Ent(name, kind) == IF kind = "absent" THEN Absent ELSE [name |-> name, kind |-> kind]

\* the tree with the given entries; the slots under something that is not a
\* directory are empty
MkTree(k2, k3, n4, k4, k5, k6, k7) ==
    [n \in Nodes |->
        CASE n = 0 -> Ent(N_root, "dir")
          [] n = 1 -> Ent(N_proj, "dir")
          [] n = 2 -> Ent(N_target, k2)
          [] n = 3 -> Ent(N_cargo, k3)
          [] n = 4 -> Ent(n4, k4)
          [] n = 5 -> IF k4 = "dir" THEN Ent(N_target, k5) ELSE Absent
          [] n = 6 -> IF k4 = "dir" THEN Ent(N_cargo, k6) ELSE Absent
          [] n = 7 -> Ent(N_other, k7)
          [] n = 8 -> IF k7 = "dir" THEN Ent(N_target, "dir") ELSE Absent
          [] n = 9 -> IF k7 = "dir" THEN Ent(N_cargo, "file") ELSE Absent]

Trees ==
    {MkTree(k2, k3, n4, k4, k5, k6, k7) :
        k2 \in {"absent", "dir", "file", "symlink"},
        k3 \in {"absent", "file", "dir", "symlink"},
        n4 \in {N_hidden, N_sub},
        k4 \in {"absent", "dir", "symlink"},
        k5 \in {"absent", "dir", "symlink"},
        k6 \in {"absent", "file"},
        k7 \in {"absent", "dir", "symlink"}}

\* str::starts_with(char)
starts_with(name, c) == Len(name) > 0 /\ name[1] = c

\* the directory a path names once symlinks are followed (read_dir follows)
Resolve(n) == IF fs[n].kind = "symlink" THEN LinkTarget ELSE n

\* std::fs::read_dir(path): the entries of the directory
Entries(n) == {c \in Nodes \ {Root} : Parent(c) = Resolve(n) /\ fs[c].kind # "absent"}

\* entry.path(), as the sequence of its components
RECURSIVE PathOf(_)
PathOf(n) == IF n = Root THEN <<fs[n].name>> ELSE Append(PathOf(Parent(n)), fs[n].name)

\* DirEntry::metadata does not follow symlinks
meta_is_symlink(e) == fs[e].kind = "symlink"
meta_is_dir(e) == fs[e].kind = "dir"
meta_is_file(e) == fs[e].kind = "file"

\* is_dir() taken from metadata that follows symlinks
file_type_is_dir_Follow(e) == fs[e].kind \in {"dir", "symlink"}

\* entry.file_type().unwrap().is_dir(): a symlink is not a directory
file_type_is_dir(e) == fs[e].kind = "dir"

\* first pass: found_target after the loop over the entries
found_target(d) ==
    \E e \in Entries(d) :
        /\ ~starts_with(fs[e].name, ".")
        /\ ~meta_is_symlink(e)
        /\ fs[e].name = N_target /\ meta_is_dir(e)

\* first pass without the meta.is_file() test on Cargo.toml
found_cargo_toml_AnyKind(d) ==
    \E e \in Entries(d) :
        /\ ~starts_with(fs[e].name, ".")
        /\ ~meta_is_symlink(e)
        /\ ~(fs[e].name = N_target /\ meta_is_dir(e))
        /\ fs[e].name = N_cargo

\* first pass: found_cargo_toml after the loop over the entries
found_cargo_toml(d) ==
    \E e \in Entries(d) :
        /\ ~starts_with(fs[e].name, ".")
        /\ ~meta_is_symlink(e)
        /\ ~(fs[e].name = N_target /\ meta_is_dir(e))
        /\ fs[e].name = N_cargo /\ meta_is_file(e)

\* second pass: the entries scan() recurses into
recurses_into(e) == file_type_is_dir(e)

\* the innermost scan() call
Top == stack[Len(stack)]
Pop == SubSeq(stack, 1, Len(stack) - 1)
Frame(n) == [node |-> n, listed |-> FALSE, todo |-> {}]

\* main has called scan(&p, &mut state.results)
InitScan ==
    /\ fs \in Trees
    /\ stack = <<Frame(Root)>>
    /\ visits = [n \in Nodes |-> 0]
    /\ failed = {}
    /\ results = <<>>
    /\ items = <<>>
    /\ selected = None
    /\ pc = "scanning"
    /\ rawMode = FALSE
    /\ altScreen = FALSE
    /\ overflowChecks \in BOOLEAN
    /\ lastEvent = "none"
    /\ calls = <<>>
    /\ prevSel = None
    /\ prevEvent = "none"
    /\ trashed = {}

mainVars == <<items, selected, rawMode, altScreen, overflowChecks,
              lastEvent, calls, prevSel, prevEvent, trashed>>

\* a scan() call returns Ok(()): to its caller's loop, or to main
ReturnOk ==
    /\ stack' = Pop
    /\ pc' = IF Len(stack) = 1 THEN "scanned" ELSE "scanning"

\* lines 88, 133-138: read_dir(path) is Err, print and return Ok(())
ScanReadFail ==
    /\ pc = "scanning"
    /\ ~Top.listed
    /\ Cardinality(failed) < MaxReadFail
    /\ failed' = failed \cup {<<Top.node, 1>>}
    /\ ReturnOk
    /\ UNCHANGED <<results, fs, visits, mainVars>>

\* lines 88-125: read_dir(path) is Ok; first pass, push of the match, and
\* the second read_dir is Ok
ScanList ==
    /\ pc = "scanning"
    /\ ~Top.listed
    /\ visits' = [visits EXCEPT ![Resolve(Top.node)] = @ + 1]
    /\ results' = IF found_target(Top.node) /\ found_cargo_toml(Top.node)
                  THEN Append(results, Append(PathOf(Top.node), N_target))
                  ELSE results
    /\ stack' = [stack EXCEPT ![Len(stack)] =
                    [node |-> Top.node, listed |-> TRUE, todo |-> Entries(Top.node)]]
    /\ UNCHANGED <<pc, fs, failed, mainVars>>

\* lines 88-125: as ScanList, but the second read_dir(path)? is Err: scan
\* returns Err, which main reports and the recursive caller unwrap()s
ScanRereadFail ==
    /\ pc = "scanning"
    /\ ~Top.listed
    /\ Cardinality(failed) < MaxReadFail
    /\ visits' = [visits EXCEPT ![Resolve(Top.node)] = @ + 1]
    /\ results' = IF found_target(Top.node) /\ found_cargo_toml(Top.node)
                  THEN Append(results, Append(PathOf(Top.node), N_target))
                  ELSE results
    /\ failed' = failed \cup {<<Top.node, 2>>}
    /\ pc' = IF Len(stack) = 1 THEN "scanErr" ELSE "panic"
    /\ UNCHANGED <<stack, fs, mainVars>>

\* lines 127-131: the loop takes an entry that is not a directory
ScanSkipEntry ==
    /\ pc = "scanning"
    /\ Top.listed
    /\ \E e \in Top.todo :
        /\ ~recurses_into(e)
        /\ stack' = [stack EXCEPT ![Len(stack)].todo = @ \ {e}]
    /\ UNCHANGED <<pc, results, fs, visits, failed, mainVars>>

\* lines 127-131: the loop takes a directory and calls scan(&entry.path(), results)
ScanRecurse ==
    /\ pc = "scanning"
    /\ Top.listed
    /\ Len(stack) < MaxDepth
    /\ \E e \in Top.todo :
        /\ recurses_into(e)
        /\ stack' = Append([stack EXCEPT ![Len(stack)].todo = @ \ {e}], Frame(e))
    /\ UNCHANGED <<pc, results, fs, visits, failed, mainVars>>

\* lines 127-138: the loop is over, return Ok(())
ScanReturn ==
    /\ pc = "scanning"
    /\ Top.listed
    /\ Top.todo = {}
    /\ ReturnOk
    /\ UNCHANGED <<results, fs, visits, failed, mainVars>>

\* main, lines 45-48: scan returned Err, print and exit(1)
MainScanFailed ==
    /\ pc = "scanErr"
    /\ pc' = "exit1"
    /\ UNCHANGED <<results, stack, fs, visits, failed, mainVars>>

scan == ScanReadFail \/ ScanList \/ ScanRereadFail \/ ScanSkipEntry \/ ScanRecurse \/ ScanReturn

NextScan == scan \/ MainScanFailed \/ MainNoResults \/ MainSetup

SpecScan == InitScan /\ [][NextScan]_vars

\* the scan is straight-line code: it keeps running until it ends
SpecScanFair == SpecScan /\ WF_vars(NextScan)

\* ---------------------------------------------------------------- scan properties
\* the elements of a sequence
Range(s) == {s[k] : k \in 1 .. Len(s)}

\* how often x occurs in s
Count(s, x) == Cardinality({k \in 1 .. Len(s) : s[k] = x})

\* the match a directory yields
MatchOf(d) == Append(PathOf(d), N_target)

\* the directory slots that hold a real directory
RealDirs == {n \in Nodes : fs[n].kind = "dir"}

\* the name is hidden
Hidden(n) == fs[n].kind # "absent" /\ fs[n].name[1] = "."

\* d directly contains a real directory `target` and a regular file `Cargo.toml`
HasBoth(d) ==
    /\ \E c \in Nodes \ {Root} : Parent(c) = d /\ fs[c].name = N_target /\ fs[c].kind = "dir"
    /\ \E c \in Nodes \ {Root} : Parent(c) = d /\ fs[c].name = N_cargo /\ fs[c].kind = "file"

\* the tree of the scenario: proj/Cargo.toml, proj/target/, proj/.h/target/,
\* proj/.h/Cargo.toml
HiddenScenario == MkTree("dir", "file", N_hidden, "dir", "dir", "file", "absent")

\* C12: the scan never lists a directory whose name starts with '.', no
\* match lies inside one, and the scenario tree yields exactly proj/target.
C12_HiddenNeverScanned ==
    /\ \A n \in RealDirs : Hidden(n) => visits[n] = 0
    /\ \A n \in RealDirs : Hidden(n) => MatchOf(n) \notin Range(results)
    /\ (pc = "scanned" /\ fs = HiddenScenario /\ failed = {}) => results = <<MatchOf(1)>>

ScanEnded == pc # "scanning"

\* C14: the scan ends on every tree, also with symlinks that form cycles or
\* lead out of the subtree; no scan() call is made on a symlink and every
\* real directory is listed at most once.
C14_ScanTerminates ==
    /\ <>ScanEnded
    /\ [](\A k \in 1 .. Len(stack) : fs[stack[k].node].kind # "symlink")
    /\ [](\A n \in Nodes : visits[n] <= 1)

\* C14 witness: the scan returned on a tree in which proj/sub is a symlink
\* to proj (a cycle) and other is a symlink to the matching proj.
C14_Witness ==
    /\ pc = "scanned"
    /\ fs[4].kind = "symlink"
    /\ fs[7].kind = "symlink"
    /\ results = <<MatchOf(1)>>

\* no read_dir on the directory failed
Readable(d) == \A f \in failed : f[1] # d

\* C15: when read_dir fails on a directory below the root, the scan does not
\* abort, and the readable directories outside it are scanned and matched.
C15_UnreadableSubdirTolerated ==
    (\E f \in failed : f[1] # Root)
        => /\ pc \notin {"panic", "scanErr", "exit1"}
           /\ pc = "scanned" =>
                \A d \in {1, 7} : (fs[d].kind = "dir" /\ Readable(d) /\ HasBoth(d))
                                    => MatchOf(d) \in Range(results)

\* C16: when the root itself cannot be read, the process ends with exit
\* code 1, not with code 0, and the interactive loop is not entered.
C16_UnreadableRootExits1 ==
    (\E f \in failed : f[1] = Root) => pc \in {"scanErr", "exit1"}

\* ---------------------------------------------------------------- more properties of the loop
\* the process has ended
Ended == pc \in {"exit0", "exit1", "exit2", "mainErr", "panic"}

\* C17: the terminal mode is entered only after the scan, and whenever the
\* process has ended, raw mode and the alternate screen have been left.
C17_TerminalRestoredOnExit ==
    /\ pc \in {"scanning", "scanned", "scanErr"} => (~rawMode /\ ~altScreen)
    /\ Ended => (~rawMode /\ ~altScreen)

\* C18: whenever the loop waits for input, state.results and events.items
\* hold the same entries in the same order.
C18_ListsEqual ==
    pc = "wait" => results = items

\* C18 witness: the loop waits again after a Delete that removed the middle
\* entry of a list of three.
C18_Witness ==
    /\ pc = "wait"
    /\ lastEvent = "Delete"
    /\ Len(calls) = 1 /\ calls[1].ok
    /\ prevSel = Some(1)
    /\ Len(results) = 2 /\ Len(items) = 2

\* C19: trash::delete is only called on paths that are in the result list
\* at the call, never on a path an earlier call has trashed, and a Delete
\* with an absent or out-of-range selection calls it on nothing.
C19_TrashOnlyListedPaths ==
    [][(pc = "wait" /\ lastEvent' \in {"Delete", "a"})
        => /\ \A k \in 1 .. Len(calls') :
                calls'[k].path \in {results[j] : j \in 1 .. Len(results)} \ trashed
           /\ (lastEvent' = "Delete" /\ ~ValidSel(selected, results)) => calls' = <<>>]_vars

\* C19 witness: a second Delete has trashed another path after the first
\* one was trashed and removed, and an entry is still listed.
C19_Witness ==
    /\ pc = "draw"
    /\ lastEvent = "Delete"
    /\ prevEvent = "Delete"
    /\ Len(calls) = 1 /\ calls[1].ok
    /\ Cardinality(trashed) = 2
    /\ results # <<>>

\* r is s without its element at 0-based index idx, the others in order
IsRemovalAt(r, s, idx) ==
    /\ Len(r) = Len(s) - 1
    /\ \A k \in 1 .. Len(r) : r[k] = IF k <= idx THEN s[k] ELSE s[k + 1]

\* C20: after the scan Up and Down leave the list as it is, a successful
\* Delete removes exactly the selected entry and keeps the order of the
\* others, and no step adds an entry or lengthens the list.
C20_OnlyRemoval ==
    [][/\ (pc = "wait" /\ lastEvent' \in {"Up", "Down"})
            => (results' = results /\ items' = items)
       /\ DeleteCalled(TRUE)
            => (IsRemovalAt(results', results, selected[1])
                /\ (pc' # "panic" => IsRemovalAt(items', items, selected[1])))
       /\ Len(results') <= Len(results)
       /\ {results'[k] : k \in 1 .. Len(results')} \subseteq {results[k] : k \in 1 .. Len(results)}
       /\ pc \in {"wait", "draw"}
            => (/\ Len(items') <= Len(items)
                /\ {items'[k] : k \in 1 .. Len(items')} \subseteq {items[k] : k \in 1 .. Len(items)})
       /\ (Len(results') = Len(results) => results' = results)]_vars

\* C20 witness: a successful Delete removed the first of three entries.
C20_Witness ==
    /\ pc = "draw"
    /\ lastEvent = "Delete"
    /\ Len(calls) = 1 /\ calls[1].ok
    /\ prevSel = Some(0)
    /\ Len(results) = 2
    /\ calls[1].path \notin {results[k] : k \in 1 .. Len(results)}

====
